---- MODULE Spec2Model ----
(***************************************************************************)
(* Model of the tracking pose decoder of openpifpaf_tracker                *)
(* (decoder/tracking_pose.py).  Confidences are fixed-point numbers in     *)
(* thousandths (0.05 is 50, 0.9 is 900); coordinates and joint scales are  *)
(* whole pixels.                                                           *)
(***************************************************************************)
EXTENDS Integers, Sequences, FiniteSets, TLC

VARIABLES
    frame_number,          \* [Decoders -> Nat]: self.frame_number of each decoder
    active,                \* [Decoders -> Seq(track)]: self.active of each decoder
    track_id_counter,      \* process-wide counter behind TrackAnnotation().id_
    keypoint_threshold,    \* openpifpaf.decoder.utils.nms.Keypoints.keypoint_threshold
    CifCaf,                \* class-level settings of openpifpaf.decoder.CifCaf
    caller,                \* the decoder whose __call__ ran last ("none" before any)
    before,                \* self.active of the last call when it was entered
    initial_annotations,   \* the seeds handed to the pose generator by the last call
    tracking_annotations,  \* what the pose generator returned to the last call
    attributed,            \* self.active of the last call after line 198; the
                           \* tracks handed to the last soft_nms
    returned,              \* the value the last call returned (line 232)
    pc,                    \* "call" between frames; "attributed", "suppressed",
                           \* "suppressed_again" around soft_nms run on its own;
                           \* "construct", "heads", "decoders" around the factory;
                           \* "raised" while the caller handles an exception
    head_metas,            \* the head metas of the data module, given to factory
    class_cache_group,     \* TrackingPose.cache_group when the decoders are built
    decoders,              \* what TrackingPose.factory returned
    alone,                 \* [Decoders -> [active, counter, returned]]: each decoder
                           \* run in a process of its own on the frames it is given
    parent,                \* LoaderWithReset.parent: the batches of one pass
    previous_value,        \* LoaderWithReset.previous_value
    position,              \* 0 with no generator of __iter__ alive, else the place
                           \* in parent of the batch its for loop takes next
    passes,                \* how many times __iter__ was called
    events                 \* signals emitted, batches yielded, exceptions raised
                           \* and generators created by the loader, in order

vars == <<frame_number, active, track_id_counter, keypoint_threshold, CifCaf,
          caller, before, initial_annotations, tracking_annotations, attributed,
          returned, pc, head_metas, class_cache_group, decoders, alone,
          parent, previous_value, position, passes, events>>

construction == <<head_metas, class_cache_group, decoders>>

decoding == <<frame_number, active, track_id_counter, keypoint_threshold, CifCaf,
              caller, before, initial_annotations, tracking_annotations, attributed,
              returned, alone>>

evaluation == <<parent, previous_value, position, passes, events>>

-----------------------------------------------------------------------------
(* Bounds of the model *)

n_keypoints == 2
MaxFrame == 4
MaxPoses == 2
MaxTracks == 3
MaxKeypoints == 3
MaxHeads == 5

(* Program constants *)

cache_group == <<0, -1>>
SeedMinConfidence == 50
CifCafKeypointThreshold == 1
OccupancyMinScale == 4
current_importance == 10
PruneWindow == 1
GoodConfidence == 500

Decoders == {"d1", "d2"}
Thresholds == {0, 150}
NoId == -1

-----------------------------------------------------------------------------
(* Helpers *)

Max2(a, b) == IF a >= b THEN a ELSE b

Min2(a, b) == IF a <= b THEN a ELSE b

SetMax(S) == CHOOSE m \in S : \A x \in S : x <= m

Range(s) == {s[i] : i \in DOMAIN s}

RECURSIVE SumSeq(_)
SumSeq(s) == IF s = <<>> THEN 0 ELSE Head(s) + SumSeq(Tail(s))

-----------------------------------------------------------------------------
(* Pose annotations: data is a sequence of <<x, y, v>>, one per keypoint *)

ZeroKeypoint == <<0, 0, 0>>

Annotation(n) ==
    [data |-> [k \in 1..n |-> ZeroKeypoint], joint_scales |-> [k \in 1..n |-> 0]]

NoPose == [data |-> <<>>, joint_scales |-> <<>>]

Confidences(ann) == [k \in DOMAIN ann.data |-> ann.data[k][3]]

-----------------------------------------------------------------------------
(* TrackAnnotation: [id_, frame_pose], frame_pose a sequence of <<frame, pose>> *)

TrackAnnotation(id) == [id_ |-> id, frame_pose |-> <<>>]

add(track, frame, ann) ==
    [track EXCEPT !.frame_pose = Append(@, <<frame, ann>>)]

FramesAt(track, frame) ==
    {i \in DOMAIN track.frame_pose : track.frame_pose[i][1] = frame}

pose(track, frame) ==
    IF FramesAt(track, frame) = {}
    THEN NoPose
    ELSE track.frame_pose[SetMax(FramesAt(track, frame))][2]

SetPose(track, frame, ann) ==
    [track EXCEPT !.frame_pose[SetMax(FramesAt(track, frame))] = <<frame, ann>>]

pose_score(track, frame) ==
    IF pose(track, frame) = NoPose THEN 0
    ELSE SumSeq(Confidences(pose(track, frame)))

score(track, frame, importance) ==
    importance * pose_score(track, frame)
    + SumSeq([i \in DOMAIN track.frame_pose |->
                 IF track.frame_pose[i][1] < frame
                 THEN (1000 \div (frame - track.frame_pose[i][1]))
                      * SumSeq(Confidences(track.frame_pose[i][2]))
                 ELSE 0])

IsGood(ann) == \E k \in DOMAIN ann.data : ann.data[k][3] >= GoodConfidence

GoodFrames(track) ==
    {track.frame_pose[i][1] : i \in {j \in DOMAIN track.frame_pose :
                                        IsGood(track.frame_pose[j][2])}}

track_is_viable(track, frame) ==
    IF GoodFrames(track) = {}
    THEN frame - track.frame_pose[1][1] <= PruneWindow
    ELSE frame - SetMax(GoodFrames(track)) <= PruneWindow

annotations(tracks, frame) ==
    LET with_pose == SelectSeq(tracks, LAMBDA t : pose(t, frame) # NoPose)
    IN  [i \in DOMAIN with_pose |->
            [id_ |-> with_pose[i].id_,
             data |-> pose(with_pose[i], frame).data,
             joint_scales |-> pose(with_pose[i], frame).joint_scales]]

-----------------------------------------------------------------------------
(* Occupancy: the claimed disks of every keypoint channel *)

Occupancy(shape) == [shape |-> shape, claims |-> {}]

OccupancySet(occupied, f, x, y, sigma) ==
    [occupied EXCEPT !.claims = @ \cup {<<f, x, y, Max2(OccupancyMinScale, sigma)>>}]

OccupancyGet(occupied, f, x, y) ==
    \/ f > occupied.shape[1]
    \/ \E c \in occupied.claims :
          /\ c[1] = f
          /\ (x - c[2]) * (x - c[2]) + (y - c[3]) * (y - c[3]) <= c[4] * c[4]

-----------------------------------------------------------------------------
(* TrackingPose.soft_nms *)

ThresholdPose(ann, threshold) ==
    [ann EXCEPT !.data = [k \in DOMAIN ann.data |->
                             IF ann.data[k][3] < threshold
                             THEN ZeroKeypoint ELSE ann.data[k]]]

KeypointThreshold(tracks, frame, threshold) ==
    [i \in DOMAIN tracks |->
        IF pose(tracks[i], frame) = NoPose
        THEN tracks[i]
        ELSE SetPose(tracks[i], frame, ThresholdPose(pose(tracks[i], frame), threshold))]

LastPose(track) == track.frame_pose[Len(track.frame_pose)][2]

OccupancyShape(tracks) ==
    <<n_keypoints,
      Max2(1, SetMax({LastPose(tracks[i]).data[k][2] :
                         i \in DOMAIN tracks, k \in 1..n_keypoints}) + 1),
      Max2(1, SetMax({LastPose(tracks[i]).data[k][1] :
                         i \in DOMAIN tracks, k \in 1..n_keypoints}) + 1)>>

(* a bug: the sort is not stable, equal scores come out in reverse order *)
SortRankLaterFirst(tracks, frame, i) ==
    1 + Cardinality({j \in DOMAIN tracks :
          \/ score(tracks[j], frame, current_importance)
               > score(tracks[i], frame, current_importance)
          \/ /\ score(tracks[j], frame, current_importance)
                  = score(tracks[i], frame, current_importance)
             /\ j > i})

(* a bug: the tracks are sorted by ascending score *)
SortRankAscending(tracks, frame, i) ==
    1 + Cardinality({j \in DOMAIN tracks :
          \/ score(tracks[j], frame, current_importance)
               < score(tracks[i], frame, current_importance)
          \/ /\ score(tracks[j], frame, current_importance)
                  = score(tracks[i], frame, current_importance)
             /\ j < i})

(* sorted(tracks, key=-score): position of each track, equal keys keep their order *)
SortRank(tracks, frame, i) ==
    1 + Cardinality({j \in DOMAIN tracks :
          \/ score(tracks[j], frame, current_importance)
               > score(tracks[i], frame, current_importance)
          \/ /\ score(tracks[j], frame, current_importance)
                  = score(tracks[i], frame, current_importance)
             /\ j < i})

SortedByScore(tracks, frame) ==
    [r \in DOMAIN tracks |->
        CHOOSE i \in DOMAIN tracks : SortRank(tracks, frame, i) = r]

(* a bug: a pose with one occupied keypoint is suppressed as a whole *)
RECURSIVE SuppressWholePose(_, _, _)
SuppressWholePose(ann, occupied, f) ==
    IF f > Len(ann.data)
    THEN [ann |-> ann, occupied |-> occupied]
    ELSE IF ann.data[f][3] = 0
    THEN SuppressWholePose(ann, occupied, f + 1)
    ELSE IF OccupancyGet(occupied, f, ann.data[f][1], ann.data[f][2])
    THEN [ann |-> [ann EXCEPT !.data = [k \in DOMAIN ann.data |->
                                           <<ann.data[k][1], ann.data[k][2], 0>>]],
          occupied |-> occupied]
    ELSE SuppressWholePose(
             ann,
             OccupancySet(occupied, f, ann.data[f][1], ann.data[f][2],
                          ann.joint_scales[f]),
             f + 1)

RECURSIVE SuppressKeypoints(_, _, _)
SuppressKeypoints(ann, occupied, f) ==
    IF f > Len(ann.data)
    THEN [ann |-> ann, occupied |-> occupied]
    ELSE IF ann.data[f][3] = 0
    THEN SuppressKeypoints(ann, occupied, f + 1)
    ELSE IF OccupancyGet(occupied, f, ann.data[f][1], ann.data[f][2])
    THEN SuppressKeypoints([ann EXCEPT !.data[f][3] = 0], occupied, f + 1)
    ELSE SuppressKeypoints(
             ann,
             OccupancySet(occupied, f, ann.data[f][1], ann.data[f][2],
                          ann.joint_scales[f]),
             f + 1)

(* a bug: the pose suppressed is the latest one of the track, whatever its  *)
(* frame                                                                    *)
RECURSIVE SuppressLatestPose(_, _, _, _)
SuppressLatestPose(tracks, order, occupied, frame) ==
    IF order = <<>>
    THEN tracks
    ELSE LET r == SuppressKeypoints(LastPose(tracks[Head(order)]), occupied, 1)
         IN  SuppressLatestPose(
                 [tracks EXCEPT ![Head(order)].frame_pose[
                     Len(tracks[Head(order)].frame_pose)][2] = r.ann],
                 Tail(order), r.occupied, frame)

RECURSIVE SuppressTracks(_, _, _, _)
SuppressTracks(tracks, order, occupied, frame) ==
    IF order = <<>>
    THEN tracks
    ELSE IF pose(tracks[Head(order)], frame) = NoPose
    THEN SuppressTracks(tracks, Tail(order), occupied, frame)
    ELSE LET r == SuppressKeypoints(pose(tracks[Head(order)], frame), occupied, 1)
         IN  SuppressTracks(
                 [tracks EXCEPT ![Head(order)] = SetPose(@, frame, r.ann)],
                 Tail(order), r.occupied, frame)

soft_nms(tracks, frame, threshold) ==
    IF tracks = <<>>
    THEN tracks
    ELSE LET kept == KeypointThreshold(tracks, frame, threshold)
         IN  KeypointThreshold(
                 SuppressTracks(kept, SortedByScore(kept, frame),
                                Occupancy(OccupancyShape(kept)), frame),
                 frame, threshold)

-----------------------------------------------------------------------------
(* TrackingPose.__call__: seed construction *)

(* a bug: enumerate without start=1, the first history block lands on block 0 *)
CopyHistoryNoStart(track, frame, nk, cg) ==
    [id_ |-> track.id_,
     data |-> [j \in 1..(nk * Len(cg)) |->
                 IF (j - 1) \div nk <= Len(cg) - 2
                    /\ pose(track, frame + cg[((j - 1) \div nk) + 2]) # NoPose
                 THEN pose(track, frame + cg[((j - 1) \div nk) + 2]).data[((j - 1) % nk) + 1]
                 ELSE ZeroKeypoint],
     joint_scales |-> [j \in 1..(nk * Len(cg)) |->
                 IF (j - 1) \div nk <= Len(cg) - 2
                    /\ pose(track, frame + cg[((j - 1) \div nk) + 2]) # NoPose
                 THEN pose(track, frame + cg[((j - 1) \div nk) + 2]).joint_scales[((j - 1) % nk) + 1]
                 ELSE 0]]

(* a bug: the history block is filled from the latest pose of the track,    *)
(* whatever its frame                                                       *)
CopyLatestPose(track, frame, nk, cg) ==
    [id_ |-> track.id_,
     data |-> [j \in 1..(nk * Len(cg)) |->
                 IF (j - 1) \div nk >= 1
                 THEN track.frame_pose[Len(track.frame_pose)][2].data[((j - 1) % nk) + 1]
                 ELSE ZeroKeypoint],
     joint_scales |-> [j \in 1..(nk * Len(cg)) |->
                 IF (j - 1) \div nk >= 1
                 THEN track.frame_pose[Len(track.frame_pose)][2]
                          .joint_scales[((j - 1) % nk) + 1]
                 ELSE 0]]

CopyHistory(track, frame, nk, cg) ==
    [id_ |-> track.id_,
     data |-> [j \in 1..(nk * Len(cg)) |->
                 IF (j - 1) \div nk >= 1
                    /\ pose(track, frame + cg[((j - 1) \div nk) + 1]) # NoPose
                 THEN pose(track, frame + cg[((j - 1) \div nk) + 1]).data[((j - 1) % nk) + 1]
                 ELSE ZeroKeypoint],
     joint_scales |-> [j \in 1..(nk * Len(cg)) |->
                 IF (j - 1) \div nk >= 1
                    /\ pose(track, frame + cg[((j - 1) \div nk) + 1]) # NoPose
                 THEN pose(track, frame + cg[((j - 1) \div nk) + 1]).joint_scales[((j - 1) % nk) + 1]
                 ELSE 0]]

(* a bug: the minimum-confidence line is missing *)
KeepKeypoints(ann, minimum) == ann

ZeroBelow(ann, minimum) ==
    [ann EXCEPT !.data = [j \in DOMAIN ann.data |->
                             IF ann.data[j][3] < minimum
                             THEN ZeroKeypoint ELSE ann.data[j]]]

HasEvidence(ann) == \E j \in DOMAIN ann.data : ann.data[j][3] > 0

tracking_ann(track, frame) ==
    ZeroBelow(CopyHistory(track, frame, n_keypoints, cache_group), SeedMinConfidence)

(* a bug: the list of seeds starts out with a blank hypothesis *)
SeedsAfterBlank(tracks, frame) ==
    <<[id_ |-> NoId,
       data |-> Annotation(n_keypoints * Len(cache_group)).data,
       joint_scales |-> Annotation(n_keypoints * Len(cache_group)).joint_scales]>>
    \o SelectSeq([i \in DOMAIN tracks |-> tracking_ann(tracks[i], frame)], HasEvidence)

Seeds(tracks, frame) ==
    SelectSeq([i \in DOMAIN tracks |-> tracking_ann(tracks[i], frame)], HasEvidence)

-----------------------------------------------------------------------------
(* TrackingPose.__call__: split and attribute *)

SingleFrame(ta) ==
    [data |-> SubSeq(ta.data, 1, n_keypoints),
     joint_scales |-> SubSeq(ta.joint_scales, 1, n_keypoints)]

(* a bug: the pose is appended without looking at the id *)
AddToEveryTrack(tracks, id, frame, ann) ==
    [i \in DOMAIN tracks |-> add(tracks[i], frame, ann)]

AddToTrack(tracks, id, frame, ann) ==
    [i \in DOMAIN tracks |->
        IF tracks[i].id_ = id THEN add(tracks[i], frame, ann) ELSE tracks[i]]

(* a bug: the id of a new track is taken from its place in the list *)
RECURSIVE AttributeListIds(_, _, _, _)
AttributeListIds(tracks, counter, frame, anns) ==
    IF anns = <<>>
    THEN [active |-> tracks, counter |-> counter]
    ELSE IF Head(anns).id_ = NoId
    THEN AttributeListIds(
             Append(tracks, add(TrackAnnotation(Len(tracks) + 1), frame,
                                SingleFrame(Head(anns)))),
             counter + 1, frame, Tail(anns))
    ELSE AttributeListIds(
             AddToTrack(tracks, Head(anns).id_, frame, SingleFrame(Head(anns))),
             counter, frame, Tail(anns))

(* a bug: the inherited id is ignored, every pose opens a track *)
RECURSIVE AttributeIgnoringIds(_, _, _, _)
AttributeIgnoringIds(tracks, counter, frame, anns) ==
    IF anns = <<>>
    THEN [active |-> tracks, counter |-> counter]
    ELSE AttributeIgnoringIds(
             Append(tracks, add(TrackAnnotation(counter + 1), frame,
                                SingleFrame(Head(anns)))),
             counter + 1, frame, Tail(anns))

(* a bug: the new track is built but never appended to self.active *)
RECURSIVE AttributeForgetting(_, _, _, _)
AttributeForgetting(tracks, counter, frame, anns) ==
    IF anns = <<>>
    THEN [active |-> tracks, counter |-> counter]
    ELSE IF Head(anns).id_ = NoId
    THEN AttributeForgetting(tracks, counter + 1, frame, Tail(anns))
    ELSE AttributeForgetting(
             AddToTrack(tracks, Head(anns).id_, frame, SingleFrame(Head(anns))),
             counter, frame, Tail(anns))

RECURSIVE Attribute(_, _, _, _)
Attribute(tracks, counter, frame, anns) ==
    IF anns = <<>>
    THEN [active |-> tracks, counter |-> counter]
    ELSE IF Head(anns).id_ = NoId
    THEN Attribute(
             Append(tracks, add(TrackAnnotation(counter + 1), frame,
                                SingleFrame(Head(anns)))),
             counter + 1, frame, Tail(anns))
    ELSE Attribute(
             AddToTrack(tracks, Head(anns).id_, frame, SingleFrame(Head(anns))),
             counter, frame, Tail(anns))

(* a bug: the pruning line is missing *)
KeepAll(tracks, frame) == tracks

Prune(tracks, frame) == SelectSeq(tracks, LAMBDA t : track_is_viable(t, frame))

-----------------------------------------------------------------------------
(* The pose generator (openpifpaf.decoder.CifCaf), an external collaborator: *)
(* it grows the seeds it is given and adds unassigned poses of its own.      *)

Detection(x, v, sigma, channels) ==
    [data |-> [k \in 1..n_keypoints |->
                  IF k \in channels THEN <<x, k, v>> ELSE ZeroKeypoint],
     joint_scales |-> [k \in 1..n_keypoints |-> IF k \in channels THEN sigma ELSE 0]]

Detections ==
    { Detection(1, 900, 1, 1..n_keypoints),
      [data |-> [k \in 1..n_keypoints |-> IF k = 1 THEN <<7, 1, 900>> ELSE <<7, k, 30>>],
       joint_scales |-> [k \in 1..n_keypoints |-> 8]] }

Grown(id, det, rest) ==
    [id_ |-> id,
     data |-> det.data \o rest.data,
     joint_scales |-> det.joint_scales \o rest.joint_scales]

HistoryBlocks(ann) ==
    [data |-> SubSeq(ann.data, n_keypoints + 1, Len(ann.data)),
     joint_scales |-> SubSeq(ann.joint_scales, n_keypoints + 1, Len(ann.joint_scales))]

(* the seeds come back first, in the order given, each grown by what the      *)
(* current frame shows of it (or dropped); unassigned poses follow            *)
Continued(seeds, found) ==
    LET kept == SelectSeq([i \in DOMAIN seeds |-> <<i, found[i]>>],
                          LAMBDA p : p[2] # NoPose)
    IN  [j \in DOMAIN kept |->
            Grown(seeds[kept[j][1]].id_, kept[j][2], HistoryBlocks(seeds[kept[j][1]]))]

Discovered(news) ==
    [j \in DOMAIN news |->
        Grown(NoId, news[j], Annotation(n_keypoints * (Len(cache_group) - 1)))]

UnassignedAt(anns) == {i \in DOMAIN anns : anns[i].id_ = NoId}

PoseGenerator(seeds, dets, fresh) ==
    {anns \in {Continued(seeds, found) \o Discovered(news) :
                  found \in [DOMAIN seeds -> dets \cup {NoPose}],
                  news \in UNION {[1..n -> dets] : n \in 0..fresh}} :
        Len(anns) <= MaxPoses}

-----------------------------------------------------------------------------
(* Head metas, TrackingPose.__init__ and TrackingPose.factory *)

KEYPOINTS(K) == [k \in 1..K |-> k]

SKELETON(K) == [k \in 1..(K - 1) |-> <<k, k + 1>>]

DENSER_CONNECTIONS(K) == SKELETON(K) \o (IF K > 2 THEN <<<<1, K>>>> ELSE <<>>)

HeadNames == {"cif", "caf", "dcaf", "tcaf"}

HeadMeta(name, K) ==
    [name |-> name,
     class |-> IF name = "cif" THEN "TBaseCif"
               ELSE IF name = "tcaf" THEN "Tcaf" ELSE "TBaseCaf",
     keypoints |-> KEYPOINTS(K),
     skeleton |-> IF name = "dcaf" THEN DENSER_CONNECTIONS(K) ELSE SKELETON(K)]

Posetrack2018(ablation_without_tcaf, K) ==
    IF ablation_without_tcaf
    THEN <<HeadMeta("cif", K), HeadMeta("caf", K), HeadMeta("dcaf", K)>>
    ELSE <<HeadMeta("cif", K), HeadMeta("caf", K), HeadMeta("dcaf", K), HeadMeta("tcaf", K)>>

Windows == {<<0>>, <<0, -1>>, <<0, -1, -2>>}

tracking_keypoints(keypoints, cg) ==
    [j \in 1..(Len(keypoints) * Len(cg)) |-> keypoints[((j - 1) % Len(keypoints)) + 1]]

(* a bug: the temporal edges are written with 0-based endpoints *)
tracking_skeleton_0based(skeleton, nk, cg) ==
    skeleton \o
    [e \in 1..(nk * (Len(cg) - 1)) |->
        <<(e - 1) % nk, ((e - 1) % nk) + (((e - 1) \div nk) + 1) * nk>>]

(* e runs over frame_i = 1..W-1 (outer) and keypoint_i = 0..K-1 (inner) *)
tracking_skeleton(skeleton, nk, cg) ==
    skeleton \o
    [e \in 1..(nk * (Len(cg) - 1)) |->
        <<((e - 1) % nk) + 1, ((e - 1) % nk) + 1 + (((e - 1) \div nk) + 1) * nk>>]

TrackingPose(cif_meta, caf_meta, tcaf_meta, cg) ==
    [cif_meta |-> cif_meta,
     caf_meta |-> caf_meta,
     tcaf_meta |-> tcaf_meta,
     n_keypoints |-> Len(cif_meta.keypoints),
     tracking_keypoints |-> tracking_keypoints(cif_meta.keypoints, cg),
     tracking_skeleton |->
        tracking_skeleton(caf_meta.skeleton, Len(cif_meta.keypoints), cg)]

(* a bug: the temporal head is taken two places after the first, and the  *)
(* guard on the number of head metas follows suit                         *)
factory_adjacent(metas, cg) ==
    IF Len(metas) < 3
    THEN <<>>
    ELSE LET triples == [i \in 1..(Len(metas) - 2) |->
                            <<metas[i], metas[i + 1], metas[i + 2]>>]
             fitting == SelectSeq(triples, LAMBDA t : /\ t[1].class = "TBaseCif"
                                                      /\ t[2].class = "TBaseCaf"
                                                      /\ t[3].class = "Tcaf")
         IN  [i \in DOMAIN fitting |->
                 TrackingPose(fitting[i][1], fitting[i][2], fitting[i][3], cg)]

factory(metas, cg) ==
    IF Len(metas) < 4
    THEN <<>>
    ELSE LET triples == [i \in 1..(Len(metas) - 3) |->
                            <<metas[i], metas[i + 1], metas[i + 3]>>]
             fitting == SelectSeq(triples, LAMBDA t : /\ t[1].class = "TBaseCif"
                                                      /\ t[2].class = "TBaseCaf"
                                                      /\ t[3].class = "Tcaf")
         IN  [i \in DOMAIN fitting |->
                 TrackingPose(fitting[i][1], fitting[i][2], fitting[i][3], cg)]

-----------------------------------------------------------------------------
(* The decoder *)

None == "None"

(* no evaluation loader has been built *)
NoEvaluation ==
    /\ parent = <<>>
    /\ previous_value = None
    /\ position = 0
    /\ passes = 0
    /\ events = <<>>

(* a decoder in a process of its own, before its first frame *)
Solo == [active |-> <<>>, counter |-> 0, returned |-> <<>>]

Init ==
    /\ frame_number = [d \in Decoders |-> 0]
    /\ active = [d \in Decoders |-> <<>>]
    /\ track_id_counter = 0
    /\ keypoint_threshold \in Thresholds
    /\ CifCaf = [nms |-> "Keypoints", keypoint_threshold |-> keypoint_threshold]
    /\ caller = "none"
    /\ before = <<>>
    /\ initial_annotations = <<>>
    /\ tracking_annotations = <<>>
    /\ attributed = <<>>
    /\ returned = <<>>
    /\ pc = "call"
    /\ head_metas = Posetrack2018(FALSE, n_keypoints)
    /\ class_cache_group = cache_group
    /\ decoders = factory(head_metas, class_cache_group)
    /\ alone = [d \in Decoders |-> Solo]
    /\ NoEvaluation

(* a bug: the poses to return are collected before the pruning line *)
DecodeReturningUnpruned(d, dets) ==
    /\ pc = "call"
    /\ frame_number[d] < MaxFrame
    /\ \E anns \in PoseGenerator(Seeds(active[d], frame_number[d] + 1), dets,
                                 Min2(MaxPoses, MaxTracks - track_id_counter)) :
          LET frame == frame_number[d] + 1
              att == Attribute(active[d], track_id_counter, frame, anns)
              suppressed == soft_nms(att.active, frame, keypoint_threshold)
          IN  /\ frame_number' = [frame_number EXCEPT ![d] = frame]
              /\ initial_annotations' = Seeds(active[d], frame)
              /\ CifCaf' = [nms |-> "None", keypoint_threshold |-> CifCafKeypointThreshold]
              /\ tracking_annotations' = anns
              /\ attributed' = att.active
              /\ track_id_counter' = att.counter
              /\ active' = [active EXCEPT ![d] = Prune(suppressed, frame)]
              /\ returned' = annotations(suppressed, frame)
              /\ caller' = d
              /\ before' = active[d]
    /\ UNCHANGED <<keypoint_threshold, pc>>
    /\ UNCHANGED construction
    /\ UNCHANGED evaluation

(* a bug: active is an attribute of the class, one list for all instances *)
DecodeSharingActive(d, dets) ==
    /\ pc = "call"
    /\ frame_number[d] < MaxFrame
    /\ \E anns \in PoseGenerator(Seeds(active[d], frame_number[d] + 1), dets,
                                 Min2(MaxPoses, MaxTracks - track_id_counter)) :
          LET frame == frame_number[d] + 1
              att == Attribute(active[d], track_id_counter, frame, anns)
              kept == Prune(soft_nms(att.active, frame, keypoint_threshold), frame)
          IN  /\ frame_number' = [frame_number EXCEPT ![d] = frame]
              /\ initial_annotations' = Seeds(active[d], frame)
              /\ CifCaf' = [nms |-> "None", keypoint_threshold |-> CifCafKeypointThreshold]
              /\ tracking_annotations' = anns
              /\ attributed' = att.active
              /\ track_id_counter' = att.counter
              /\ active' = [e \in Decoders |-> kept]
              /\ returned' = annotations(kept, frame)
              /\ caller' = d
              /\ before' = active[d]
    /\ UNCHANGED <<keypoint_threshold, pc>>
    /\ UNCHANGED construction
    /\ UNCHANGED evaluation

(* a bug: frame_number is incremented again before the call returns *)
DecodeIncrementingTwice(d, dets) ==
    /\ pc = "call"
    /\ frame_number[d] < MaxFrame
    /\ \E anns \in PoseGenerator(Seeds(active[d], frame_number[d] + 1), dets,
                                 Min2(MaxPoses, MaxTracks - track_id_counter)) :
          LET frame == frame_number[d] + 1
              att == Attribute(active[d], track_id_counter, frame, anns)
              kept == Prune(soft_nms(att.active, frame, keypoint_threshold), frame)
          IN  /\ frame_number' = [frame_number EXCEPT ![d] = frame + 1]
              /\ initial_annotations' = Seeds(active[d], frame)
              /\ CifCaf' = [nms |-> "None", keypoint_threshold |-> CifCafKeypointThreshold]
              /\ tracking_annotations' = anns
              /\ attributed' = att.active
              /\ track_id_counter' = att.counter
              /\ active' = [active EXCEPT ![d] = kept]
              /\ returned' = annotations(kept, frame)
              /\ caller' = d
              /\ before' = active[d]
    /\ UNCHANGED <<keypoint_threshold, pc>>
    /\ UNCHANGED construction
    /\ UNCHANGED evaluation

(* __call__ with the pruning of line 211 taken before the suppression of    *)
(* line 204                                                                 *)
TransitionPruningFirst(d, anns) ==
    LET frame == frame_number[d] + 1
        att == Attribute(active[d], track_id_counter, frame, anns)
        kept == soft_nms(Prune(att.active, frame), frame, keypoint_threshold)
    IN  /\ frame_number' = [frame_number EXCEPT ![d] = frame]
        /\ initial_annotations' = Seeds(active[d], frame)
        /\ CifCaf' = [nms |-> "None", keypoint_threshold |-> CifCafKeypointThreshold]
        /\ tracking_annotations' = anns
        /\ attributed' = att.active
        /\ track_id_counter' = att.counter
        /\ active' = [active EXCEPT ![d] = kept]
        /\ returned' = annotations(kept, frame)
        /\ caller' = d
        /\ before' = active[d]

(* __call__ putting the CifCaf settings back once the pose generator has    *)
(* returned                                                                 *)
TransitionRestoringCifCaf(d, anns) ==
    LET frame == frame_number[d] + 1
        att == Attribute(active[d], track_id_counter, frame, anns)
        kept == Prune(soft_nms(att.active, frame, keypoint_threshold), frame)
    IN  /\ frame_number' = [frame_number EXCEPT ![d] = frame]
        /\ initial_annotations' = Seeds(active[d], frame)
        /\ CifCaf' = CifCaf
        /\ tracking_annotations' = anns
        /\ attributed' = att.active
        /\ track_id_counter' = att.counter
        /\ active' = [active EXCEPT ![d] = kept]
        /\ returned' = annotations(kept, frame)
        /\ caller' = d
        /\ before' = active[d]

(* __call__ with the suppression of line 204 working on copies of the       *)
(* tracks: the returned poses are suppressed, the recorded ones are not     *)
TransitionSuppressingCopies(d, anns) ==
    LET frame == frame_number[d] + 1
        att == Attribute(active[d], track_id_counter, frame, anns)
        suppressed == soft_nms(att.active, frame, keypoint_threshold)
        viable == {suppressed[i].id_ :
                      i \in {j \in DOMAIN suppressed :
                                track_is_viable(suppressed[j], frame)}}
    IN  /\ frame_number' = [frame_number EXCEPT ![d] = frame]
        /\ initial_annotations' = Seeds(active[d], frame)
        /\ CifCaf' = [nms |-> "None", keypoint_threshold |-> CifCafKeypointThreshold]
        /\ tracking_annotations' = anns
        /\ attributed' = att.active
        /\ track_id_counter' = att.counter
        /\ active' = [active EXCEPT ![d] =
                          SelectSeq(att.active, LAMBDA t : t.id_ \in viable)]
        /\ returned' = annotations(Prune(suppressed, frame), frame)
        /\ caller' = d
        /\ before' = active[d]

(* __call__ of decoder d when self.pose_generator returns anns *)
Transition(d, anns) ==
    LET frame == frame_number[d] + 1
        att == Attribute(active[d], track_id_counter, frame, anns)
        kept == Prune(soft_nms(att.active, frame, keypoint_threshold), frame)
    IN  /\ frame_number' = [frame_number EXCEPT ![d] = frame]
        /\ initial_annotations' = Seeds(active[d], frame)
        /\ CifCaf' = [nms |-> "None", keypoint_threshold |-> CifCafKeypointThreshold]
        /\ tracking_annotations' = anns
        /\ attributed' = att.active
        /\ track_id_counter' = att.counter
        /\ active' = [active EXCEPT ![d] = kept]
        /\ returned' = annotations(kept, frame)
        /\ caller' = d
        /\ before' = active[d]

Decode(d, dets) ==
    /\ pc = "call"
    /\ frame_number[d] < MaxFrame
    /\ \E anns \in PoseGenerator(Seeds(active[d], frame_number[d] + 1), dets,
                                 Min2(MaxPoses, MaxTracks - track_id_counter)) :
          Transition(d, anns)
    /\ UNCHANGED <<keypoint_threshold, pc>>
    /\ UNCHANGED construction
    /\ UNCHANGED evaluation

Call == Decode("d1", Detections) /\ UNCHANGED alone

Next == Call

Spec == Init /\ [][Next]_vars

-----------------------------------------------------------------------------
(* Two decoder instances of one process, their calls interleaved *)

CallFirst == Decode("d1", {Detection(1, 900, 1, 1..n_keypoints)}) /\ UNCHANGED alone

CallSecond == Decode("d2", {Detection(1, 900, 1, 1..n_keypoints)}) /\ UNCHANGED alone

NextMulti == CallFirst \/ CallSecond

SpecMulti == Init /\ [][NextMulti]_vars

-----------------------------------------------------------------------------
(* Two decoder instances, each followed by the same decoder run in a        *)
(* process of its own: it is given the same frames, so its pose generator   *)
(* continues the seeds at the same places of the seed list and discovers    *)
(* the same poses                                                           *)

Relabel(anns, seeds, seeds_alone) ==
    [j \in DOMAIN anns |->
        LET place == {i \in DOMAIN seeds : seeds[i].id_ = anns[j].id_}
        IN  IF anns[j].id_ # NoId /\ place # {} /\ SetMax(place) \in DOMAIN seeds_alone
            THEN [anns[j] EXCEPT !.id_ = seeds_alone[SetMax(place)].id_]
            ELSE [anns[j] EXCEPT !.id_ = NoId]]

RunAlone(d) ==
    alone' = [alone EXCEPT ![d] =
        LET frame == frame_number'[d]
            anns == Relabel(tracking_annotations', initial_annotations',
                            Seeds(alone[d].active, frame))
            att == Attribute(alone[d].active, alone[d].counter, frame, anns)
            kept == Prune(soft_nms(att.active, frame, keypoint_threshold), frame)
        IN  [active |-> kept, counter |-> att.counter,
             returned |-> annotations(kept, frame)]]

SessionFirst == Decode("d1", {Detection(1, 900, 1, 1..n_keypoints)}) /\ RunAlone("d1")

SessionSecond == Decode("d2", {Detection(1, 900, 1, 1..n_keypoints)}) /\ RunAlone("d2")

NextSessions == SessionFirst \/ SessionSecond

SpecSessions == Init /\ [][NextSessions]_vars

-----------------------------------------------------------------------------
(* One decoder whose pose generator may raise: the exception leaves         *)
(* __call__ at line 181, the caller handles it and goes on with the video   *)

(* a bug: the lost tracks are pruned at the start of the call (line 138) *)
RaiseAfterPruning(d) ==
    /\ pc = "call"
    /\ frame_number[d] < MaxFrame
    /\ frame_number' = [frame_number EXCEPT ![d] = @ + 1]
    /\ initial_annotations' = Seeds(Prune(active[d], frame_number[d] + 1), frame_number[d] + 1)
    /\ CifCaf' = [nms |-> "None", keypoint_threshold |-> CifCafKeypointThreshold]
    /\ tracking_annotations' = <<>>
    /\ active' = [active EXCEPT ![d] = Prune(@, frame_number[d] + 1)]
    /\ attributed' = active'[d]
    /\ returned' = <<>>
    /\ caller' = d
    /\ before' = active[d]
    /\ pc' = "raised"
    /\ UNCHANGED <<track_id_counter, keypoint_threshold, alone>>
    /\ UNCHANGED construction
    /\ UNCHANGED evaluation

Raise(d) ==
    /\ pc = "call"
    /\ frame_number[d] < MaxFrame
    /\ frame_number' = [frame_number EXCEPT ![d] = @ + 1]
    /\ initial_annotations' = Seeds(active[d], frame_number[d] + 1)
    /\ CifCaf' = [nms |-> "None", keypoint_threshold |-> CifCafKeypointThreshold]
    /\ tracking_annotations' = <<>>
    /\ attributed' = active[d]
    /\ returned' = <<>>
    /\ caller' = d
    /\ before' = active[d]
    /\ pc' = "raised"
    /\ UNCHANGED <<active, track_id_counter, keypoint_threshold, alone>>
    /\ UNCHANGED construction
    /\ UNCHANGED evaluation

CallOrRaise == Decode("d1", Detections) /\ UNCHANGED alone

Failure == Raise("d1")

Resume ==
    /\ pc = "raised"
    /\ pc' = "call"
    /\ UNCHANGED <<frame_number, active, track_id_counter, keypoint_threshold, CifCaf,
                   caller, before, initial_annotations, tracking_annotations, attributed,
                   returned, alone>>
    /\ UNCHANGED construction
    /\ UNCHANGED evaluation

NextFailing == CallOrRaise \/ Failure \/ Resume

SpecFailing == Init /\ [][NextFailing]_vars

-----------------------------------------------------------------------------
(* One decoder with a pose generator of the caller's (the pose_generator    *)
(* argument of __init__), held to nothing but the collaborator contract:    *)
(* each result carries the id_ of a seed or none, in any order, any number  *)
(* of times                                                                 *)

AnyPoseGenerator(seeds, dets, fresh) ==
    LET results ==
            {Grown(seeds[i].id_, det, HistoryBlocks(seeds[i])) :
                i \in DOMAIN seeds, det \in dets}
            \cup {Grown(NoId, det, Annotation(n_keypoints * (Len(cache_group) - 1))) :
                     det \in dets}
    IN  {anns \in UNION {[1..n -> results] : n \in 0..MaxPoses} :
            Cardinality(UnassignedAt(anns)) <= fresh}

DecodeAny(d, dets) ==
    /\ pc = "call"
    /\ frame_number[d] < MaxFrame
    /\ \E anns \in AnyPoseGenerator(Seeds(active[d], frame_number[d] + 1), dets,
                                    Min2(MaxPoses, MaxTracks - track_id_counter)) :
          Transition(d, anns)
    /\ UNCHANGED <<keypoint_threshold, pc>>
    /\ UNCHANGED construction
    /\ UNCHANGED evaluation

CallAny == DecodeAny("d1", {Detection(1, 900, 1, 1..n_keypoints)}) /\ UNCHANGED alone

NextAny == CallAny

SpecAny == Init /\ [][NextAny]_vars

-----------------------------------------------------------------------------
(* One decoder on a video whose person fades: a strong detection at one     *)
(* place and a faint one at another                                         *)

FaintDetections ==
    { Detection(1, 900, 1, 1..n_keypoints), Detection(20, 100, 1, 1..n_keypoints) }

CallFaint == Decode("d1", FaintDetections) /\ UNCHANGED alone

NextFaint == CallFaint

SpecFaint == Init /\ [][NextFaint]_vars

-----------------------------------------------------------------------------
(* soft_nms on its own: the tracks of frame 2 after attribution, suppressed  *)
(* once and then a second time                                               *)

MaxNmsTracks == 3

NmsThresholds == {0, 150, 500}

NmsDetections ==
    { Detection(1, 900, 1, 1..n_keypoints),
      Detection(7, 900, 1, 1..n_keypoints),
      Detection(7, 900, 8, {n_keypoints}),
      Detection(4, 100, 8, {1}),
      Detection(1, 900, 1, {1}),
      [data |-> [k \in 1..n_keypoints |-> IF k = 1 THEN <<1, 1, 900>> ELSE <<1, k, 100>>],
       joint_scales |-> [k \in 1..n_keypoints |-> 1]] }

(* the tracks carried over from frame 1 stand far apart there *)
NmsTrack(i, old, current) ==
    [id_ |-> i,
     frame_pose |->
        (IF old THEN <<<<1, Detection(20 * i, 900, 1, 1..n_keypoints)>>>> ELSE <<>>)
        \o (IF current # NoPose THEN <<<<2, current>>>> ELSE <<>>)]

NmsInputs ==
    UNION {
        {[i \in 1..n |-> NmsTrack(i, i <= h, current[i])] :
            current \in {c \in [1..n -> NmsDetections \cup {NoPose}] :
                            \A i \in 1..n : i > h => c[i] # NoPose}}
        : n \in 1..MaxNmsTracks, h \in 0..MaxNmsTracks}

InitNms ==
    /\ frame_number = [d \in Decoders |-> IF d = "d1" THEN 2 ELSE 0]
    /\ \E tracks \in NmsInputs :
          /\ active = [d \in Decoders |-> IF d = "d1" THEN tracks ELSE <<>>]
          /\ attributed = tracks
          /\ track_id_counter = Len(tracks)
    /\ keypoint_threshold \in NmsThresholds
    /\ CifCaf = [nms |-> "None", keypoint_threshold |-> CifCafKeypointThreshold]
    /\ caller = "d1"
    /\ before = <<>>
    /\ initial_annotations = <<>>
    /\ tracking_annotations = <<>>
    /\ returned = <<>>
    /\ pc = "attributed"
    /\ head_metas = Posetrack2018(FALSE, n_keypoints)
    /\ class_cache_group = cache_group
    /\ decoders = factory(head_metas, class_cache_group)
    /\ alone = [d \in Decoders |-> Solo]
    /\ NoEvaluation

Suppress ==
    /\ pc = "attributed"
    /\ active' = [active EXCEPT !["d1"] = soft_nms(@, frame_number["d1"], keypoint_threshold)]
    /\ pc' = "suppressed"
    /\ UNCHANGED <<frame_number, track_id_counter, keypoint_threshold, CifCaf, caller,
                   before, initial_annotations, tracking_annotations, attributed,
                   returned, alone>>
    /\ UNCHANGED construction
    /\ UNCHANGED evaluation

SuppressAgain ==
    /\ pc = "suppressed"
    /\ attributed' = active["d1"]
    /\ active' = [active EXCEPT !["d1"] = soft_nms(@, frame_number["d1"], keypoint_threshold)]
    /\ pc' = "suppressed_again"
    /\ UNCHANGED <<frame_number, track_id_counter, keypoint_threshold, CifCaf, caller,
                   before, initial_annotations, tracking_annotations, returned,
                   alone>>
    /\ UNCHANGED construction
    /\ UNCHANGED evaluation

NextNms == Suppress \/ SuppressAgain

SpecNms == InitNms /\ [][NextNms]_vars

-----------------------------------------------------------------------------
(* Construction: a data module publishes its head metas, the factory builds *)
(* the decoders from them                                                   *)

InitFactory ==
    /\ frame_number = [d \in Decoders |-> 0]
    /\ active = [d \in Decoders |-> <<>>]
    /\ track_id_counter = 0
    /\ keypoint_threshold = 0
    /\ CifCaf = [nms |-> "Keypoints", keypoint_threshold |-> keypoint_threshold]
    /\ caller = "none"
    /\ before = <<>>
    /\ initial_annotations = <<>>
    /\ tracking_annotations = <<>>
    /\ attributed = <<>>
    /\ returned = <<>>
    /\ pc = "construct"
    /\ head_metas = <<>>
    /\ class_cache_group \in Windows
    /\ decoders = <<>>
    /\ alone = [d \in Decoders |-> Solo]
    /\ NoEvaluation

DataModule ==
    /\ pc = "construct"
    /\ \E ablation_without_tcaf \in BOOLEAN : \E K \in 1..MaxKeypoints :
          head_metas' = Posetrack2018(ablation_without_tcaf, K)
    /\ pc' = "heads"
    /\ UNCHANGED <<class_cache_group, decoders>>
    /\ UNCHANGED decoding
    /\ UNCHANGED evaluation

OtherHeads ==
    /\ pc = "construct"
    /\ \E n \in 0..MaxHeads : \E names \in [1..n -> HeadNames] :
          \E K \in 1..MaxKeypoints :
             head_metas' = [i \in 1..n |-> HeadMeta(names[i], K)]
    /\ pc' = "heads"
    /\ UNCHANGED <<class_cache_group, decoders>>
    /\ UNCHANGED decoding
    /\ UNCHANGED evaluation

Factory ==
    /\ pc = "heads"
    /\ decoders' = factory(head_metas, class_cache_group)
    /\ pc' = "decoders"
    /\ UNCHANGED <<head_metas, class_cache_group>>
    /\ UNCHANGED decoding
    /\ UNCHANGED evaluation

NextFactory == DataModule \/ OtherHeads \/ Factory

SpecFactory == InitFactory /\ [][NextFactory]_vars

-----------------------------------------------------------------------------
(* The evaluation loader of the data module: LoaderWithReset around a       *)
(* parent loader that yields the same batches, in the same order, on every  *)
(* pass (shuffle=False).  A batch is (images, anns, metas); the images and  *)
(* annotations of a batch are stood for by its place in the parent.         *)

MaxBatch == 2

MaxBatches == 3

MaxPasses == 2

AnnotationFiles == {"a.json", "b.json"}

key_to_monitor == "annotation_file"

Metas ==
    UNION {[1..k -> {[annotation_file |-> f] : f \in AnnotationFiles}] : k \in 1..MaxBatch}

ParentLoaders ==
    UNION {{[i \in 1..n |-> [images |-> i, anns |-> i, metas |-> m[i]]] :
               m \in [1..n -> Metas]} : n \in 0..MaxBatches}

NoBatch == [images |-> 0, anns |-> 0, metas |-> <<>>]

Event(type, batch) == [type |-> type, batch |-> batch]

InitLoader ==
    /\ frame_number = [d \in Decoders |-> 0]
    /\ active = [d \in Decoders |-> <<>>]
    /\ track_id_counter = 0
    /\ keypoint_threshold = 0
    /\ CifCaf = [nms |-> "Keypoints", keypoint_threshold |-> keypoint_threshold]
    /\ caller = "none"
    /\ before = <<>>
    /\ initial_annotations = <<>>
    /\ tracking_annotations = <<>>
    /\ attributed = <<>>
    /\ returned = <<>>
    /\ pc = "evaluate"
    /\ head_metas = Posetrack2018(FALSE, n_keypoints)
    /\ class_cache_group = cache_group
    /\ decoders = factory(head_metas, class_cache_group)
    /\ alone = [d \in Decoders |-> Solo]
    /\ parent \in ParentLoaders
    /\ previous_value = None
    /\ position = 0
    /\ passes = 0
    /\ events = <<>>

(* a bug: the remembered value is forgotten when a pass starts *)
IterResetting ==
    /\ pc = "evaluate"
    /\ position = 0
    /\ passes < MaxPasses
    /\ position' = 1
    /\ passes' = passes + 1
    /\ previous_value' = None
    /\ events' = Append(events, Event("iter", NoBatch))
    /\ UNCHANGED parent
    /\ UNCHANGED <<decoding, construction, pc>>

(* iter(loader): a generator of __iter__ is created, its for loop at the    *)
(* first batch of the parent                                                *)
Iter ==
    /\ pc = "evaluate"
    /\ position = 0
    /\ passes < MaxPasses
    /\ position' = 1
    /\ passes' = passes + 1
    /\ events' = Append(events, Event("iter", NoBatch))
    /\ UNCHANGED <<parent, previous_value>>
    /\ UNCHANGED <<decoding, construction, pc>>

(* a bug: the batch is compared with the remembered value before its metas  *)
(* are compared with each other                                             *)
IterateSignalFirst ==
    /\ pc = "evaluate"
    /\ position > 0
    /\ IF position > Len(parent)
       THEN /\ position' = 0
            /\ UNCHANGED <<previous_value, events>>
       ELSE LET metas == parent[position].metas
                value == metas[1][key_to_monitor]
                signal == IF value # previous_value
                          THEN <<Event("eval_reset", NoBatch)>> ELSE <<>>
            IN  IF Len(metas) >= 2
                   /\ ~(\A i \in 2..Len(metas) : metas[i][key_to_monitor] = value)
                THEN /\ events' = events \o signal \o <<Event("AssertionError", NoBatch)>>
                     /\ position' = 0
                     /\ previous_value' = value
                ELSE /\ events' = events \o signal \o <<Event("yield", parent[position])>>
                     /\ previous_value' = value
                     /\ position' = position + 1
    /\ UNCHANGED <<parent, passes>>
    /\ UNCHANGED <<decoding, construction, pc>>

(* next(generator): the body of __iter__ from where it stands to its next   *)
(* yield, to the exception it raises or to the end of the parent            *)
Iterate ==
    /\ pc = "evaluate"
    /\ position > 0
    /\ IF position > Len(parent)
       THEN /\ position' = 0
            /\ UNCHANGED <<previous_value, events>>
       ELSE LET metas == parent[position].metas
                value == metas[1][key_to_monitor]
            IN  IF Len(metas) >= 2
                   /\ ~(\A i \in 2..Len(metas) : metas[i][key_to_monitor] = value)
                THEN /\ events' = Append(events, Event("AssertionError", NoBatch))
                     /\ position' = 0
                     /\ UNCHANGED previous_value
                ELSE /\ events' =
                          events
                          \o (IF value # previous_value
                              THEN <<Event("eval_reset", NoBatch)>> ELSE <<>>)
                          \o <<Event("yield", parent[position])>>
                     /\ previous_value' = value
                     /\ position' = position + 1
    /\ UNCHANGED <<parent, passes>>
    /\ UNCHANGED <<decoding, construction, pc>>

(* the consumer leaves its loop and drops the generator at its yield *)
Abandon ==
    /\ pc = "evaluate"
    /\ position > 1
    /\ position <= Len(parent)
    /\ position' = 0
    /\ UNCHANGED <<parent, previous_value, passes, events>>
    /\ UNCHANGED <<decoding, construction, pc>>

NextLoader == Iter \/ Iterate \/ Abandon

SpecLoader == InitLoader /\ [][NextLoader]_vars

-----------------------------------------------------------------------------
(* Vocabulary of the properties *)

Called == pc = "call" /\ caller # "none"

Frame == frame_number[caller]

Ids(tracks) == {tracks[i].id_ : i \in DOMAIN tracks}

TrackOf(tracks, id) == tracks[CHOOSE i \in DOMAIN tracks : tracks[i].id_ = id]

FirstK(ann) ==
    [data |-> [k \in 1..n_keypoints |-> ann.data[k]],
     joint_scales |-> [k \in 1..n_keypoints |-> ann.joint_scales[k]]]

CounterBefore == track_id_counter - Cardinality(UnassignedAt(tracking_annotations))

(* the entries the returned poses carrying `id` add to a track, in order *)
EntriesFor(anns, id, frame) ==
    LET mine == SelectSeq(anns, LAMBDA a : a.id_ = id)
    IN  [j \in DOMAIN mine |-> <<frame, FirstK(mine[j])>>]

-----------------------------------------------------------------------------
(* C1: after the attribution step of every call, each unassigned tracking   *)
(* pose has opened exactly one new track with a fresh id_ whose only entry  *)
(* is (frame_number, first K keypoints), appended to active; each pose with *)
(* an id_ has been appended, for frame_number, to the track of that id_;    *)
(* and no other track has gained a pose.                                    *)
C1_Attribution ==
    Called =>
        LET fresh == SelectSeq(tracking_annotations, LAMBDA a : a.id_ = NoId)
        IN  /\ Len(attributed) = Len(before) + Len(fresh)
            /\ \A j \in DOMAIN fresh :
                  LET t == attributed[Len(before) + j]
                  IN  /\ t.id_ \notin Ids(before)
                      /\ t.id_ > CounterBefore
                      /\ \A i \in DOMAIN attributed :
                            i # Len(before) + j => attributed[i].id_ # t.id_
                      /\ t.frame_pose = <<<<Frame, FirstK(fresh[j])>>>>
            /\ \A i \in DOMAIN before :
                  /\ attributed[i].id_ = before[i].id_
                  /\ attributed[i].frame_pose =
                        before[i].frame_pose
                        \o EntriesFor(tracking_annotations, before[i].id_, Frame)

C1_Witness ==
    /\ Called
    /\ \E a \in Range(tracking_annotations) : a.id_ = NoId
    /\ \E a \in Range(tracking_annotations) : a.id_ # NoId
    /\ \E i \in DOMAIN before :
          /\ attributed[i].frame_pose = before[i].frame_pose
          /\ \E j \in DOMAIN before : attributed[j].frame_pose # before[j].frame_pose

-----------------------------------------------------------------------------
(* C2: over the calls of both decoder instances, the tracks held anywhere   *)
(* have pairwise different id_, a call creates exactly the ids following    *)
(* the process-wide counter, and every id_ in active or in the returned     *)
(* poses after a call was in active when the call was entered or was        *)
(* created by it: an id_ that pruning removed never comes back.             *)
AllActive ==
    {<<d, i>> : d \in Decoders, i \in 1..MaxTracks} \cap
    UNION {{<<d, i>> : i \in DOMAIN active[d]} : d \in Decoders}

C2_UniqueIds ==
    /\ \A p \in AllActive : \A q \in AllActive :
          p # q => active[p[1]][p[2]].id_ # active[q[1]][q[2]].id_
    /\ \A p \in AllActive : active[p[1]][p[2]].id_ \in 1..track_id_counter
    /\ Called =>
          /\ \A i \in DOMAIN attributed : \A j \in DOMAIN attributed :
                i # j => attributed[i].id_ # attributed[j].id_
          /\ Ids(attributed) \ Ids(before) = (CounterBefore + 1)..track_id_counter
          /\ \A t \in Range(before) : t.id_ <= CounterBefore
          /\ Ids(active[caller]) \subseteq Ids(before) \cup ((CounterBefore + 1)..track_id_counter)
          /\ {returned[i].id_ : i \in DOMAIN returned} \subseteq Ids(active[caller])
          /\ \A d \in Decoders \ {caller} :
                Ids(active[d]) \cap ((CounterBefore + 1)..track_id_counter) = {}

(* both instances hold tracks, one has lost a track to pruning and has      *)
(* created another since                                                    *)
C2_Witness ==
    /\ Called
    /\ \A d \in Decoders : active[d] # <<>>
    /\ \E id \in 1..track_id_counter :
          /\ \A d \in Decoders : id \notin Ids(active[d])
          /\ \E t \in Range(active[caller]) : t.id_ > id /\ t.id_ \notin Ids(before)

-----------------------------------------------------------------------------
(* C3: identity stability.  When the pose generator continues the seed of   *)
(* track T (T held a pose at the previous frame), the current-frame block   *)
(* of that tracking pose is recorded under T and under no new id_, and the  *)
(* pose returned for it at this frame carries id_ T.                        *)
Suppressed(out, in) ==
    \A k \in 1..n_keypoints :
        \/ out.data[k] = in.data[k]
        \/ out.data[k][3] = 0

-----------------------------------------------------------------------------
(* C4: pruning.  No track in active has gone more than PruneWindow frames   *)
(* without a detection: after PruneWindow + 1 calls without one the track   *)
(* is gone, and a track that has left active is not in active after any     *)
(* later call (only tracks present on entry, or created by the call, are).  *)
LastDetection(track) == SetMax({track.frame_pose[i][1] : i \in DOMAIN track.frame_pose})

C4_Pruning ==
    /\ \A d \in Decoders : \A t \in Range(active[d]) :
          frame_number[d] - LastDetection(t) <= PruneWindow
    /\ Called =>
          \A t \in Range(active[caller]) :
              \/ t.id_ \in Ids(before)
              \/ LastDetection(t) = Frame /\ Len(t.frame_pose) = 1

(* a track that went undetected has been dropped by this call, and the      *)
(* decoder had dropped another one in an earlier call                       *)
C4_Witness ==
    /\ Called
    /\ \E t \in Range(before) :
          /\ t.id_ \notin Ids(active[caller])
          /\ Frame - LastDetection(t) = PruneWindow + 1
    /\ \E id \in 1..track_id_counter :
          id \notin Ids(before) /\ id \notin Ids(attributed)

-----------------------------------------------------------------------------
(* Vocabulary of the soft_nms properties: the tracks handed to the last     *)
(* soft_nms are in attributed, its result is in active                      *)

NmsFrame == frame_number["d1"]

NmsIn(i) == pose(attributed[i], NmsFrame)

NmsOut(i) == pose(active["d1"][i], NmsFrame)

(* the score soft_nms sorts by: taken after the first thresholding *)
SortScore(i) ==
    score(KeypointThreshold(attributed, NmsFrame, keypoint_threshold)[i],
          NmsFrame, current_importance)

ProcessedBefore(c, a) ==
    \/ SortScore(c) > SortScore(a)
    \/ SortScore(c) = SortScore(a) /\ c < a

(* keypoint f of ann is retained and its disk covers (x, y) *)
Covers(ann, f, x, y) ==
    /\ ann # NoPose
    /\ ann.data[f][3] > 0
    /\ OccupancyGet(OccupancySet(Occupancy(<<n_keypoints, 1, 1>>), f, ann.data[f][1],
                                 ann.data[f][2], ann.joint_scales[f]),
                    f, x, y)

SamePlace(a, b, f) ==
    /\ a # b
    /\ NmsIn(a) # NoPose
    /\ NmsIn(b) # NoPose
    /\ NmsIn(a).data[f] = NmsIn(b).data[f]
    /\ NmsIn(a).data[f][3] > 0
    /\ NmsIn(a).data[f][3] >= keypoint_threshold
    /\ SortScore(a) > SortScore(b)

Priority(a, b, f) ==
    /\ NmsOut(a).data[f] = NmsIn(a).data[f]
    /\ NmsOut(b).data[f][3] = 0

-----------------------------------------------------------------------------
(* C5 as stated: whenever tracks A and B hold a current-frame keypoint on   *)
(* the same channel at the same position with equal confidence at or above  *)
(* keypoint_threshold and score(A) > score(B), soft_nms leaves A's keypoint *)
(* unchanged and sets B's confidence to 0.                                  *)
C5_AsStated ==
    pc = "suppressed" =>
        \A a \in DOMAIN attributed : \A b \in DOMAIN attributed :
            \A f \in 1..n_keypoints :
                SamePlace(a, b, f) => Priority(a, b, f)

(* C5, amended: under the same premise (scores as soft_nms sorts them,      *)
(* after sub-threshold keypoints are zeroed) B's confidence is exactly 0;   *)
(* A's keypoint is unchanged provided no track processed before A retains a *)
(* keypoint of that channel whose occupancy disk covers the position.       *)
C5_SuppressionPriority ==
    pc = "suppressed" =>
        \A a \in DOMAIN attributed : \A b \in DOMAIN attributed :
            \A f \in 1..n_keypoints :
                SamePlace(a, b, f) =>
                    /\ NmsOut(b).data[f][3] = 0
                    /\ (\A c \in DOMAIN attributed :
                           ProcessedBefore(c, a) =>
                              ~Covers(NmsOut(c), f, NmsIn(a).data[f][1], NmsIn(a).data[f][2]))
                       => Priority(a, b, f)

(* A wins the keypoint over B although a third track is processed first *)
C5_Witness ==
    /\ pc = "suppressed"
    /\ \E a \in DOMAIN attributed : \E b \in DOMAIN attributed :
          \E f \in 1..n_keypoints :
             /\ SamePlace(a, b, f)
             /\ Priority(a, b, f)
             /\ \E c \in DOMAIN attributed :
                   c # a /\ ProcessedBefore(c, a) /\ NmsOut(c) # NoPose
                   /\ NmsOut(c).data[f][3] > 0

-----------------------------------------------------------------------------
(* C6: a second soft_nms right after the first (same tracks, frame and      *)
(* threshold) removes nothing: the current-frame keypoints with confidence  *)
(* above 0 are the same after the second run as after the first.            *)
Retained(tracks, frame) ==
    {<<tracks[i].id_, f>> : i \in DOMAIN tracks, f \in 1..n_keypoints} \cap
    UNION {{<<tracks[i].id_, f>> : f \in {g \in 1..n_keypoints :
                                            pose(tracks[i], frame).data[g][3] > 0}}
           : i \in {j \in DOMAIN tracks : pose(tracks[j], frame) # NoPose}}

C6_Idempotent ==
    pc = "suppressed_again" =>
        Retained(active["d1"], NmsFrame) = Retained(attributed, NmsFrame)

-----------------------------------------------------------------------------
(* C7: for the same tracks after attribution, the poses returned under a    *)
(* higher keypoint_threshold hold no more keypoints with confidence above 0 *)
(* than those returned under a lower one.                                   *)
Emitted(tracks, frame, threshold) ==
    annotations(Prune(soft_nms(tracks, frame, threshold), frame), frame)

CountRetained(anns) ==
    Cardinality({<<i, f>> \in (DOMAIN anns) \X (1..n_keypoints) : anns[i].data[f][3] > 0})

C7_ThresholdMonotone ==
    pc = "attributed" =>
        \A t1 \in NmsThresholds : \A t2 \in NmsThresholds :
            t1 <= t2 =>
                CountRetained(Emitted(attributed, NmsFrame, t2))
                    <= CountRetained(Emitted(attributed, NmsFrame, t1))

-----------------------------------------------------------------------------
(* C8: seed construction.  For every track active on entry and every window *)
(* position i >= 1, block i of the hypothesis built for it is the pose the  *)
(* track recorded at frame_number + cache_group[i] (keypoints and scales)   *)
(* when there is one, and has zero confidence otherwise; block 0 has zero   *)
(* confidence; what is handed to the pose generator is that hypothesis with *)
(* the keypoints below the minimum confidence zeroed.  The scenario of the  *)
(* specification (K = 4, one pose at frame 5, frame_number 6) comes out as  *)
(* stated and the seed is kept.                                             *)
ScenarioPose ==
    [data |-> [k \in 1..4 |-> <<10 + k, 20, 900>>], joint_scales |-> [k \in 1..4 |-> 2]]

ScenarioSeed ==
    ZeroBelow(CopyHistory([id_ |-> 1, frame_pose |-> <<<<5, ScenarioPose>>>>], 6, 4,
                          cache_group),
              SeedMinConfidence)

C8_SeedConstruction ==
    /\ \A k \in 1..4 :
          /\ ScenarioSeed.data[k][3] = 0
          /\ ScenarioSeed.data[4 + k] = ScenarioPose.data[k]
          /\ ScenarioSeed.joint_scales[4 + k] = ScenarioPose.joint_scales[k]
    /\ Len(ScenarioSeed.data) = 8
    /\ HasEvidence(ScenarioSeed)
    /\ Called =>
          \A t \in Range(before) :
              LET seed == CopyHistory(t, Frame, n_keypoints, cache_group)
              IN  /\ seed.id_ = t.id_
                  /\ Len(seed.data) = n_keypoints * Len(cache_group)
                  /\ \A k \in 1..n_keypoints : seed.data[k][3] = 0
                  /\ \A i \in 1..(Len(cache_group) - 1) : \A k \in 1..n_keypoints :
                        LET recorded == pose(t, Frame + cache_group[i + 1])
                        IN  IF recorded # NoPose
                            THEN /\ seed.data[i * n_keypoints + k] = recorded.data[k]
                                 /\ seed.joint_scales[i * n_keypoints + k]
                                       = recorded.joint_scales[k]
                            ELSE seed.data[i * n_keypoints + k][3] = 0
                  /\ \A s \in Range(initial_annotations) :
                        s.id_ = t.id_ =>
                           /\ s.joint_scales = seed.joint_scales
                           /\ \A j \in DOMAIN seed.data :
                                 s.data[j] = IF seed.data[j][3] < SeedMinConfidence
                                             THEN ZeroKeypoint ELSE seed.data[j]

(* one track with a pose at the previous frame gave a seed, another track   *)
(* has no pose there                                                        *)
C8_Witness ==
    /\ Called
    /\ \E t \in Range(before) :
          /\ pose(t, Frame - 1) # NoPose
          /\ \E s \in Range(initial_annotations) :
                /\ s.id_ = t.id_
                /\ \A k \in 1..n_keypoints :
                      s.data[n_keypoints + k] = pose(t, Frame - 1).data[k]
    /\ \E t \in Range(before) : pose(t, Frame - 1) = NoPose

-----------------------------------------------------------------------------
(* C9: seed filtering.  The pose generator receives, in the order of        *)
(* active, one seed for exactly those tracks that hold, at a frame of the   *)
(* window, a keypoint of confidence at least 0.05; each seed carries its    *)
(* track's id_ and has no keypoint of confidence below 0.05 left (such rows *)
(* are zero); a track whose seed is discarded stays in active through       *)
(* attribution and leaves only if pruning finds it not viable.              *)
SeedWorthy(t) ==
    \E i \in 1..(Len(cache_group) - 1) : \E k \in 1..n_keypoints :
        /\ pose(t, Frame + cache_group[i + 1]) # NoPose
        /\ pose(t, Frame + cache_group[i + 1]).data[k][3] >= SeedMinConfidence

C9_SeedFiltering ==
    Called =>
        LET worthy == SelectSeq(before, SeedWorthy)
        IN  /\ Len(initial_annotations) = Len(worthy)
            /\ \A i \in DOMAIN worthy : initial_annotations[i].id_ = worthy[i].id_
            /\ \A s \in Range(initial_annotations) :
                  /\ \A j \in DOMAIN s.data :
                        s.data[j] = ZeroKeypoint \/ s.data[j][3] >= SeedMinConfidence
                  /\ \E j \in DOMAIN s.data : s.data[j][3] > 0
            /\ \A t \in Range(before) :
                  /\ t.id_ \in Ids(attributed)
                  /\ ~SeedWorthy(t) =>
                        /\ TrackOf(attributed, t.id_) = t
                        /\ t.id_ \in Ids(active[caller]) <=> track_is_viable(t, Frame)

(* a seed went out with a keypoint zeroed for its confidence, and a track   *)
(* whose seed was discarded is still in active                              *)
C9_Witness ==
    /\ Called
    /\ \E t \in Range(before) : \E k \in 1..n_keypoints :
          /\ pose(t, Frame - 1) # NoPose
          /\ pose(t, Frame - 1).data[k][3] > 0
          /\ pose(t, Frame - 1).data[k][3] < SeedMinConfidence
          /\ \E s \in Range(initial_annotations) :
                s.id_ = t.id_ /\ s.data[n_keypoints + k] = ZeroKeypoint
    /\ \E t \in Range(before) :
          /\ t.id_ \notin {initial_annotations[i].id_ : i \in DOMAIN initial_annotations}
          /\ t.id_ \in Ids(active[caller])

-----------------------------------------------------------------------------
(* C10: a call entered with active empty, to which the pose generator       *)
(* returns exactly one pose, leaves exactly one track in active, with       *)
(* exactly one entry (at frame_number), and returns one pose whose id_ is   *)
(* that track's id_.                                                        *)
C10_FirstDetection ==
    (Called /\ before = <<>> /\ Len(tracking_annotations) = 1) =>
        /\ tracking_annotations[1].id_ = NoId
        /\ Len(active[caller]) = 1
        /\ Len(active[caller][1].frame_pose) = 1
        /\ active[caller][1].frame_pose[1][1] = Frame
        /\ active[caller][1].id_ = track_id_counter
        /\ Len(returned) = 1
        /\ returned[1].id_ = active[caller][1].id_

(* the case at a first frame is the scenario; here active had emptied again *)
C10_Witness ==
    /\ Called
    /\ before = <<>>
    /\ Len(tracking_annotations) = 1
    /\ Len(returned) = 1
    /\ track_id_counter >= 2

-----------------------------------------------------------------------------
(* C11: every call returns exactly the current-frame poses of the tracks    *)
(* that are in active after pruning, in their order, each with its track's  *)
(* id_; the tracks in active are exactly the viable ones of those that came *)
(* out of suppression, so no pose of a track pruned by this call or before  *)
(* it is returned, and no active track with a current-frame pose is left    *)
(* out.                                                                     *)
Present(tracks, frame) == SelectSeq(tracks, LAMBDA t : pose(t, frame) # NoPose)

AfterSuppression == soft_nms(attributed, Frame, keypoint_threshold)

C11_Emission ==
    Called =>
        LET present == Present(active[caller], Frame)
        IN  /\ Len(returned) = Len(present)
            /\ \A i \in DOMAIN present :
                  /\ returned[i].id_ = present[i].id_
                  /\ returned[i].data = pose(present[i], Frame).data
                  /\ returned[i].joint_scales = pose(present[i], Frame).joint_scales
            /\ active[caller] =
                  SelectSeq(AfterSuppression, LAMBDA t : track_is_viable(t, Frame))
            /\ \A r \in Range(returned) :
                  /\ r.id_ \in Ids(active[caller])
                  /\ r.id_ \in Ids(before) \/ r.id_ > CounterBefore
                  /\ track_is_viable(TrackOf(active[caller], r.id_), Frame)

(* a track with a current-frame pose was pruned by this call and is not     *)
(* among the returned poses, while another track's pose is returned         *)
C11_Witness ==
    /\ Called
    /\ returned # <<>>
    /\ \E t \in Range(AfterSuppression) :
          /\ pose(t, Frame) # NoPose
          /\ HasEvidence(pose(t, Frame))
          /\ ~track_is_viable(t, Frame)
          /\ t.id_ \notin {returned[i].id_ : i \in DOMAIN returned}
          /\ t.id_ \notin Ids(active[caller])

-----------------------------------------------------------------------------
(* C12: schema invariant.  Every decoder built from a single-frame schema   *)
(* of K keypoints under a cache_group of W entries has K*W tracking         *)
(* keypoints; its tracking skeleton is the intra-frame skeleton followed by *)
(* exactly K*(W-1) temporal edges, one for each keypoint k and each block   *)
(* i in 1..W-1, from k to k + i*K (1-based), every endpoint within 1..K*W.  *)
TemporalEdges(dec) ==
    SubSeq(dec.tracking_skeleton, Len(dec.caf_meta.skeleton) + 1,
           Len(dec.tracking_skeleton))

C12_Schema ==
    pc = "decoders" =>
        \A dec \in Range(decoders) :
            LET K == Len(dec.cif_meta.keypoints)
                W == Len(class_cache_group)
                temporal == TemporalEdges(dec)
            IN  /\ dec.n_keypoints = K
                /\ Len(dec.tracking_keypoints) = K * W
                /\ \A j \in 1..(K * W) :
                      dec.tracking_keypoints[j] = dec.cif_meta.keypoints[((j - 1) % K) + 1]
                /\ SubSeq(dec.tracking_skeleton, 1, Len(dec.caf_meta.skeleton))
                      = dec.caf_meta.skeleton
                /\ Len(temporal) = K * (W - 1)
                /\ \A k \in 1..K : \A i \in 1..(W - 1) :
                      Cardinality({e \in DOMAIN temporal :
                                      temporal[e] = <<k, k + i * K>>}) = 1
                /\ \A e \in DOMAIN temporal :
                      /\ temporal[e][1] \in 1..K
                      /\ temporal[e][2] \in (K + 1)..(K * W)
                      /\ (temporal[e][2] - temporal[e][1]) % K = 0

(* a decoder was built for three keypoints over a window of three frames *)
C12_Witness ==
    /\ pc = "decoders"
    /\ \E dec \in Range(decoders) :
          /\ Len(dec.cif_meta.keypoints) = 3
          /\ Len(class_cache_group) = 3
          /\ Len(TemporalEdges(dec)) = 6
          /\ dec.caf_meta.skeleton # <<>>

-----------------------------------------------------------------------------
(* C13 as stated: under every interleaving of the calls of two decoder      *)
(* instances, the active set of each instance and the poses it returned are *)
(* the same as when that instance runs alone on its own frames.             *)
C13_AsStated ==
    Called =>
        /\ \A d \in Decoders : active[d] = alone[d].active
        /\ returned = alone[caller].returned

(* C13, amended: the active set of each instance and the poses it returned  *)
(* are the same as when it runs alone except for the values of id_, which   *)
(* come from the process-wide counter that the instances share: the tracks  *)
(* hold the same poses at the same frames in the same order, the ids are    *)
(* in the same relative order, and the returned poses are the same and      *)
(* belong to the same tracks.                                               *)
Place(tracks, id) == {i \in DOMAIN tracks : tracks[i].id_ = id}

SameButIds(tracks, solo) ==
    /\ Len(tracks) = Len(solo)
    /\ \A i \in DOMAIN tracks : tracks[i].frame_pose = solo[i].frame_pose
    /\ \A i \in DOMAIN tracks : \A j \in DOMAIN tracks :
          tracks[i].id_ < tracks[j].id_ <=> solo[i].id_ < solo[j].id_

C13_Isolation ==
    Called =>
        /\ \A d \in Decoders : SameButIds(active[d], alone[d].active)
        /\ Len(returned) = Len(alone[caller].returned)
        /\ \A i \in DOMAIN returned :
              /\ returned[i].data = alone[caller].returned[i].data
              /\ returned[i].joint_scales = alone[caller].returned[i].joint_scales
              /\ Place(active[caller], returned[i].id_)
                    = Place(alone[caller].active, alone[caller].returned[i].id_)

(* both instances hold tracks, and the ids of one differ from those it has  *)
(* when run alone                                                           *)
C13_Witness ==
    /\ Called
    /\ \A d \in Decoders : active[d] # <<>> /\ frame_number[d] >= 2
    /\ \E d \in Decoders : active[d] # alone[d].active
    /\ returned # <<>>
    /\ returned # alone[caller].returned

-----------------------------------------------------------------------------
(* C14: the frame_number of every decoder is 0 before its first call; every *)
(* call adds exactly one to the frame_number of the decoder called, before  *)
(* the seeds are built and the poses recorded (both use the new value), and *)
(* leaves the frame_number of the other decoder alone; nothing else changes *)
(* a frame_number.  So after the n-th call of a decoder its frame_number is *)
(* n.                                                                       *)
NewEntries(d) ==
    UNION {{attributed'[i].frame_pose[j][1] :
               j \in {k \in DOMAIN attributed'[i].frame_pose :
                         i > Len(active[d]) \/ k > Len(active[d][i].frame_pose)}}
           : i \in DOMAIN attributed'}

C14_FrameNumber ==
    /\ caller = "none" => \A d \in Decoders : frame_number[d] = 0
    /\ [][\E d \in Decoders :
             /\ caller' = d
             /\ frame_number' = [frame_number EXCEPT ![d] = @ + 1]
             /\ initial_annotations' = Seeds(active[d], frame_number[d] + 1)
             /\ NewEntries(d) \subseteq {frame_number[d] + 1}
             /\ \A r \in Range(returned') :
                   r.id_ \in Ids(active'[d])
                   /\ pose(TrackOf(active'[d], r.id_), frame_number[d] + 1) # NoPose]_vars

(* both decoders have been called, a different number of times, and the one *)
(* called last recorded a pose at its third frame                           *)
C14_Witness ==
    /\ Called
    /\ Frame = 3
    /\ \E d \in Decoders : frame_number[d] = 1
    /\ \E t \in Range(active[caller]) : pose(t, 3) # NoPose

-----------------------------------------------------------------------------
(* C15: the factory returns an empty list whenever it is given fewer than 4 *)
(* head metas; the head metas of a Posetrack2018 data module built with     *)
(* ablation_without_tcaf are 3, so it gets no tracking decoder; the default *)
(* head metas [cif, caf, dcaf, tcaf] give exactly one decoder, built from   *)
(* the heads 0, 1 and 3.                                                    *)
C15_Factory ==
    pc = "decoders" =>
        /\ Len(head_metas) < 4 => decoders = <<>>
        /\ \A K \in 1..MaxKeypoints :
              /\ head_metas = Posetrack2018(TRUE, K) =>
                    /\ Len(head_metas) = 3
                    /\ decoders = <<>>
              /\ head_metas = Posetrack2018(FALSE, K) =>
                    /\ [i \in 1..4 |-> head_metas[i].name] = <<"cif", "caf", "dcaf", "tcaf">>
                    /\ Len(decoders) = 1
                    /\ decoders[1].cif_meta = head_metas[1]
                    /\ decoders[1].caf_meta = head_metas[2]
                    /\ decoders[1].tcaf_meta = head_metas[4]

(* the factory was given the three head metas of the ablation *)
C15_Witness ==
    /\ pc = "decoders"
    /\ \E K \in 1..MaxKeypoints : head_metas = Posetrack2018(TRUE, K)
    /\ [i \in DOMAIN head_metas |-> head_metas[i].class]
          = <<"TBaseCif", "TBaseCaf", "TBaseCaf">>
    /\ decoders = <<>>

-----------------------------------------------------------------------------
(* C16: when the pose generator raises, the call ends with the exception    *)
(* and active is what it was when the call was entered: the same tracks     *)
(* with the same recorded poses, no track created (the id counter has not   *)
(* moved), none pruned, and nothing is returned.  The frame_number of the   *)
(* decoder has been incremented all the same.                               *)
C16_Abandoned ==
    [][pc' = "raised" =>
          /\ active' = active
          /\ active'[caller'] = before'
          /\ track_id_counter' = track_id_counter
          /\ tracking_annotations' = <<>>
          /\ returned' = <<>>
          /\ pc = "call" => frame_number'[caller'] = frame_number[caller'] + 1]_vars

(* the pose generator raised at a frame where pruning would have dropped a  *)
(* track and a seed had been built for another                              *)
C16_Witness ==
    /\ pc = "raised"
    /\ initial_annotations # <<>>
    /\ \E t \in Range(active[caller]) : ~track_is_viable(t, Frame)
    /\ active[caller] = before

-----------------------------------------------------------------------------
(* C17: a call entered with active empty, to which the pose generator       *)
(* returns no pose, completes: no seed was handed to the pose generator,    *)
(* suppression of the empty list leaves it empty, active is empty after the *)
(* call and the returned list is empty; no id is used up.                   *)
C17_EmptyFrame ==
    (caller # "none" /\ before = <<>> /\ tracking_annotations = <<>>) =>
        /\ pc = "call"
        /\ initial_annotations = <<>>
        /\ attributed = <<>>
        /\ soft_nms(attributed, Frame, keypoint_threshold) = <<>>
        /\ active[caller] = <<>>
        /\ returned = <<>>
        /\ CounterBefore = track_id_counter

(* an empty frame after the tracks of the video were all pruned *)
C17_Witness ==
    /\ Called
    /\ before = <<>>
    /\ tracking_annotations = <<>>
    /\ active[caller] = <<>>
    /\ returned = <<>>
    /\ track_id_counter >= 1
    /\ Frame >= 2

-----------------------------------------------------------------------------
(* C18: in every state the frame numbers of the frame_pose of every active  *)
(* track are strictly increasing and the last is at most the decoder's      *)
(* frame_number; and a call adds at most one entry to a track, whatever     *)
(* the pose generator returned, several poses with the same id_ included.   *)
StrictlyIncreasing(track) ==
    \A i \in DOMAIN track.frame_pose : \A j \in DOMAIN track.frame_pose :
        i < j => track.frame_pose[i][1] < track.frame_pose[j][1]

C18_FramePose ==
    /\ \A d \in Decoders : \A t \in Range(active[d]) :
          /\ StrictlyIncreasing(t)
          /\ t.frame_pose[Len(t.frame_pose)][1] <= frame_number[d]
    /\ Called =>
          \A i \in DOMAIN before :
              Len(attributed[i].frame_pose) <= Len(before[i].frame_pose) + 1

-----------------------------------------------------------------------------
(* C19: after soft_nms, of two tracks that both retain a keypoint of the    *)
(* same channel at the frame, the keypoint of the one processed later does  *)
(* not lie in the disk claimed by the one processed earlier.  Suppression   *)
(* is per channel: a keypoint that was at or above the threshold is zeroed  *)
(* only when a track processed earlier retains a keypoint of that same      *)
(* channel whose disk covers it, every other keypoint is left as it was,    *)
(* and tracks without a pose at the frame are untouched.                    *)
Retains(ann, f) == ann # NoPose /\ ann.data[f][3] > 0

C19_PerChannel ==
    pc = "suppressed" =>
        /\ \A a \in DOMAIN attributed : \A b \in DOMAIN attributed :
              \A f \in 1..n_keypoints :
                  (ProcessedBefore(a, b) /\ Retains(NmsOut(a), f) /\ Retains(NmsOut(b), f))
                     => ~Covers(NmsOut(a), f, NmsOut(b).data[f][1], NmsOut(b).data[f][2])
        /\ \A b \in DOMAIN attributed :
              IF NmsIn(b) = NoPose
              THEN active["d1"][b] = attributed[b]
              ELSE \A f \in 1..n_keypoints :
                     IF NmsIn(b).data[f][3] < keypoint_threshold
                     THEN NmsOut(b).data[f] = ZeroKeypoint
                     ELSE IF \E a \in DOMAIN attributed :
                                /\ ProcessedBefore(a, b)
                                /\ Covers(NmsOut(a), f, NmsIn(b).data[f][1],
                                          NmsIn(b).data[f][2])
                     THEN NmsOut(b).data[f][3] = 0
                     ELSE NmsOut(b).data[f] = NmsIn(b).data[f]

(* two tracks at the same place retain different keypoints: the later one   *)
(* lost one channel to the earlier one and kept another                     *)
C19_Witness ==
    /\ pc = "suppressed"
    /\ \E a \in DOMAIN attributed : \E b \in DOMAIN attributed :
          \E f \in 1..n_keypoints : \E g \in 1..n_keypoints :
             /\ ProcessedBefore(a, b)
             /\ Retains(NmsOut(a), f)
             /\ Retains(NmsIn(b), f)
             /\ ~Retains(NmsOut(b), f)
             /\ Retains(NmsOut(b), g)
             /\ ~Retains(NmsOut(a), g)
             /\ NmsIn(b).data[g][1] = NmsOut(a).data[f][1]

-----------------------------------------------------------------------------
(* C20 as stated: the tracks are processed by descending score, equal       *)
(* scores in their order in active, the same input gives the same result on *)
(* every run, and of two tracks of equal score that overlap on a channel    *)
(* the one earlier in active keeps its keypoint.                            *)
Thresholded == KeypointThreshold(attributed, NmsFrame, keypoint_threshold)

ProcessingOrder == SortedByScore(Thresholded, NmsFrame)

InOrder ==
    /\ Range(ProcessingOrder) = DOMAIN attributed
    /\ \A r \in DOMAIN ProcessingOrder : \A q \in DOMAIN ProcessingOrder :
          r < q => ProcessedBefore(ProcessingOrder[r], ProcessingOrder[q])

(* a is earlier in active than b, their scores are equal, and b's keypoint  *)
(* of channel f lies in the disk of a's                                     *)
TiedOverlap(a, b, f) ==
    /\ a < b
    /\ SortScore(a) = SortScore(b)
    /\ Retains(pose(Thresholded[a], NmsFrame), f)
    /\ Retains(pose(Thresholded[b], NmsFrame), f)
    /\ Covers(NmsIn(a), f, NmsIn(b).data[f][1], NmsIn(b).data[f][2])

(* a is the earliest in active of the tracks of its score that overlap on f *)
EarliestOfTied(a, f) == \A e \in DOMAIN attributed : ~TiedOverlap(e, a, f)

C20_AsStated ==
    pc = "suppressed" =>
        /\ InOrder
        /\ active["d1"] = soft_nms(attributed, NmsFrame, keypoint_threshold)
        /\ \A a \in DOMAIN attributed : \A b \in DOMAIN attributed :
              \A f \in 1..n_keypoints :
                  (TiedOverlap(a, b, f) /\ EarliestOfTied(a, f))
                     => NmsOut(a).data[f] = NmsIn(a).data[f]

(* C20, amended: order and determinism as stated; of two tracks of equal    *)
(* score that overlap on a channel, the later one in active never keeps its *)
(* keypoint when the earlier one keeps its own, and the earlier one keeps   *)
(* its keypoint provided no track processed before it retains a keypoint of *)
(* that channel whose disk covers it.                                       *)
C20_Deterministic ==
    pc = "suppressed" =>
        /\ InOrder
        /\ active["d1"] = soft_nms(attributed, NmsFrame, keypoint_threshold)
        /\ \A a \in DOMAIN attributed : \A b \in DOMAIN attributed :
              \A f \in 1..n_keypoints :
                  TiedOverlap(a, b, f) =>
                     /\ Retains(NmsOut(a), f) => ~Retains(NmsOut(b), f)
                     /\ (\A c \in DOMAIN attributed :
                            ProcessedBefore(c, a) =>
                               ~Covers(NmsOut(c), f, NmsIn(a).data[f][1],
                                       NmsIn(a).data[f][2]))
                        => NmsOut(a).data[f] = NmsIn(a).data[f]

(* two tracks of equal score at the same place: the earlier one kept the    *)
(* keypoint, the later one lost it                                          *)
C20_Witness ==
    /\ pc = "suppressed"
    /\ \E a \in DOMAIN attributed : \E b \in DOMAIN attributed :
          \E f \in 1..n_keypoints :
             /\ TiedOverlap(a, b, f)
             /\ NmsIn(a).data[f] = NmsIn(b).data[f]
             /\ NmsOut(a).data[f] = NmsIn(a).data[f]
             /\ NmsOut(b).data[f][3] = 0

-----------------------------------------------------------------------------
(* C21: a call takes its steps in a fixed order.  The seeds are built from  *)
(* the tracks the call started with; every pose the generator returned is   *)
(* attributed before suppression starts; suppression runs over the updated  *)
(* track list, the tracks created by this call included; the tracks kept    *)
(* are the ones viable on their confidences after suppression; and every    *)
(* returned pose is the pose its track holds after suppression.             *)
PreSuppressionViable(t) == track_is_viable(TrackOf(attributed, t.id_), Frame)

C21_StepOrder ==
    Called =>
      LET suppressed == AfterSuppression
      IN  /\ initial_annotations = Seeds(before, Frame)
          /\ attributed =
                Attribute(before, CounterBefore, Frame, tracking_annotations).active
          /\ Len(suppressed) = Len(attributed)
          /\ \A i \in DOMAIN attributed :
                /\ suppressed[i].id_ = attributed[i].id_
                /\ pose(attributed[i], Frame) # NoPose =>
                      /\ pose(suppressed[i], Frame) # NoPose
                      /\ Suppressed(pose(suppressed[i], Frame),
                                    pose(attributed[i], Frame))
          /\ active[caller] =
                SelectSeq(suppressed, LAMBDA t : track_is_viable(t, Frame))
          /\ \A r \in Range(returned) :
                /\ r.id_ \in Ids(suppressed)
                /\ r.data = pose(TrackOf(suppressed, r.id_), Frame).data
          /\ \A t \in Range(suppressed) :
                (track_is_viable(t, Frame) /\ pose(t, Frame) # NoPose) =>
                    \E r \in Range(returned) : r.id_ = t.id_

(* a track that was viable on the confidences it had before suppression is  *)
(* pruned because suppression zeroed its current pose, and a track created  *)
(* by an earlier call supplies the returned pose                            *)
C21_Witness ==
    /\ Called
    /\ returned # <<>>
    /\ \E t \in Range(AfterSuppression) :
          /\ PreSuppressionViable(t)
          /\ ~track_is_viable(t, Frame)
          /\ HasEvidence(pose(TrackOf(attributed, t.id_), Frame))
          /\ ~HasEvidence(pose(t, Frame))
          /\ t.id_ \notin Ids(active[caller])

(* a track created by this call has a keypoint zeroed by the suppression    *)
(* of the same call                                                         *)
C21_NewTrackSuppressed ==
    /\ Called
    /\ \E i \in DOMAIN attributed :
          /\ attributed[i].id_ > CounterBefore
          /\ \E k \in 1..n_keypoints :
                /\ pose(attributed[i], Frame).data[k][3] > 0
                /\ pose(AfterSuppression[i], Frame).data[k][3] = 0

-----------------------------------------------------------------------------
(* C23: a call at frame N modifies only poses recorded for frame N.  Every  *)
(* entry a track held on entry is still there, unchanged, after             *)
(* attribution, after suppression and in the track list the call leaves,    *)
(* so the pose recorded at every frame M < N is the same before and after   *)
(* the call; and suppression changes entries of frame N only, never         *)
(* raising a keypoint confidence.                                           *)
EarlierKept(old, new) ==
    /\ Len(new.frame_pose) >= Len(old.frame_pose)
    /\ \A j \in DOMAIN old.frame_pose : new.frame_pose[j] = old.frame_pose[j]
    /\ \A M \in 0..(Frame - 1) : pose(new, M) = pose(old, M)

C23_OnlyCurrentFrame ==
    Called =>
      LET suppressed == AfterSuppression
      IN  /\ \A b \in Range(before) :
              /\ \A j \in DOMAIN b.frame_pose : b.frame_pose[j][1] < Frame
              /\ EarlierKept(b, TrackOf(attributed, b.id_))
              /\ EarlierKept(b, TrackOf(suppressed, b.id_))
              /\ b.id_ \in Ids(active[caller]) =>
                    EarlierKept(b, TrackOf(active[caller], b.id_))
          /\ \A i \in DOMAIN attributed :
              /\ Len(suppressed[i].frame_pose) = Len(attributed[i].frame_pose)
              /\ \A j \in DOMAIN attributed[i].frame_pose :
                    LET old == attributed[i].frame_pose[j]
                        new == suppressed[i].frame_pose[j]
                    IN  /\ new[1] = old[1]
                        /\ old[1] < Frame => new = old
                        /\ new[2].joint_scales = old[2].joint_scales
                        /\ \A k \in 1..n_keypoints :
                              new[2].data[k][3] <= old[2].data[k][3]

(* a track that is not continued keeps the pose it recorded at the frame    *)
(* before, although a track with a higher score holds a keypoint at the     *)
(* same place at the current frame                                          *)
C23_Witness ==
    /\ Called
    /\ Frame >= 2
    /\ \E b \in Range(before) :
          /\ HasEvidence(pose(b, Frame - 1))
          /\ pose(TrackOf(attributed, b.id_), Frame) = NoPose
          /\ b.id_ \in Ids(active[caller])
          /\ \E u \in Range(AfterSuppression) :
                /\ u.id_ # b.id_
                /\ pose(u, Frame) # NoPose
                /\ score(u, Frame, current_importance)
                      > score(TrackOf(AfterSuppression, b.id_), Frame, current_importance)
                /\ \E k \in 1..n_keypoints :
                      /\ pose(u, Frame).data[k][3] > 0
                      /\ pose(b, Frame - 1).data[k][3] > 0
                      /\ pose(u, Frame).data[k][1] = pose(b, Frame - 1).data[k][1]

-----------------------------------------------------------------------------
(* C22: every call writes nms = None and keypoint_threshold = 0.001 to the  *)
(* class-level CifCaf settings before it invokes the pose generator and     *)
(* never puts the old values back: once any decoder instance has taken a    *)
(* call, the settings of the whole process are the relaxed ones, in every   *)
(* later state and for every instance.                                      *)
Relaxed == [nms |-> "None", keypoint_threshold |-> CifCafKeypointThreshold]

C22_Settings ==
    /\ []((\E d \in Decoders : frame_number[d] > 0) => CifCaf = Relaxed)
    /\ [][(\E d \in Decoders : frame_number'[d] # frame_number[d])
              => CifCaf' = Relaxed]_vars
    /\ [][CifCaf = Relaxed => CifCaf' = Relaxed]_vars

(* one instance has decoded two frames, the other none, and the settings    *)
(* the other will find are the relaxed ones, not the ones of construction   *)
C22_Witness ==
    /\ Called
    /\ caller = "d1"
    /\ frame_number["d1"] = 2
    /\ frame_number["d2"] = 0
    /\ CifCaf = Relaxed
    /\ CifCaf # [nms |-> "Keypoints", keypoint_threshold |-> keypoint_threshold]

-----------------------------------------------------------------------------
(* C24: with cache_group = [0, -1] and a pose generator that returns only   *)
(* ids of seeds it was given, a track that received no pose at a frame      *)
(* receives none at the next one, so the frame numbers recorded in every    *)
(* track, active or just pruned, are consecutive.                           *)
FramesOf(track) == {track.frame_pose[j][1] : j \in DOMAIN track.frame_pose}

Consecutive(track) ==
    \A a \in FramesOf(track) : \A c \in FramesOf(track) :
        \A m \in a..c : m \in FramesOf(track)

C24_NoGaps ==
    /\ cache_group = <<0, -1>>
    /\ \A d \in Decoders : \A t \in Range(active[d]) : Consecutive(t)
    /\ Called =>
          /\ \A a \in Range(tracking_annotations) :
                a.id_ = NoId \/ a.id_ \in {initial_annotations[i].id_ :
                                              i \in DOMAIN initial_annotations}
          /\ \A t \in Range(attributed) : Consecutive(t)
          /\ \A b \in Range(before) :
                pose(b, Frame - 1) = NoPose =>
                    pose(TrackOf(attributed, b.id_), Frame) = NoPose

(* a track with a pose two frames back and none at the frame before is      *)
(* still in the list on entry and gets no pose, while the generator does    *)
(* return poses for this frame                                              *)
C24_Witness ==
    /\ Called
    /\ Frame >= 3
    /\ tracking_annotations # <<>>
    /\ \E b \in Range(before) :
          /\ HasEvidence(pose(b, Frame - 2))
          /\ pose(b, Frame - 1) = NoPose
          /\ pose(TrackOf(attributed, b.id_), Frame) = NoPose

-----------------------------------------------------------------------------
(* C25: seeds are built from the data suppression left.  From the call at   *)
(* frame N to the call at frame N+1 of the same decoder, for every track    *)
(* that survived the pruning at N: a keypoint that is zero after the        *)
(* suppression at N is zero in the history block of the track's seed at     *)
(* N+1, and a track whose frame-N pose is missing, wholly suppressed or     *)
(* wholly below 0.05 has no seed at N+1.                                    *)
SeedsOf(seeds, id) == {seeds[j] : j \in {i \in DOMAIN seeds : seeds[i].id_ = id}}

C25_SeedsAfterSuppression ==
    [][(Called /\ caller' = caller /\ frame_number'[caller] = Frame + 1) =>
          LET suppressed == AfterSuppression
          IN  \A i \in DOMAIN suppressed :
                suppressed[i].id_ \in Ids(active[caller]) =>
                    LET p == pose(suppressed[i], Frame)
                        mine == SeedsOf(initial_annotations', suppressed[i].id_)
                    IN  /\ Cardinality(mine) <= 1
                        /\ (p = NoPose
                            \/ \A k \in 1..n_keypoints :
                                  p.data[k][3] < SeedMinConfidence) => mine = {}
                        /\ p # NoPose =>
                              \A sd \in mine : \A k \in 1..n_keypoints :
                                  p.data[k][3] = 0 => sd.data[n_keypoints + k][3] = 0]_vars

(* a track entered this call with a pose at the frame before of which       *)
(* suppression had zeroed one keypoint and left another (no pose comes      *)
(* from the generator with a zero confidence), and its seed has the zero    *)
(* at that keypoint of the history block and the other keypoint's data      *)
C25_Witness ==
    /\ Called
    /\ Frame >= 2
    /\ \E b \in Range(before) :
          /\ pose(b, Frame - 1) # NoPose
          /\ \E k \in 1..n_keypoints : \E l \in 1..n_keypoints :
                /\ pose(b, Frame - 1).data[k][3] = 0
                /\ pose(b, Frame - 1).data[l][3] >= SeedMinConfidence
                /\ \E sd \in SeedsOf(initial_annotations, b.id_) :
                      /\ sd.data[n_keypoints + k][3] = 0
                      /\ sd.data[n_keypoints + l] = pose(b, Frame - 1).data[l]

(* a track entered this call with a pose at the frame before that           *)
(* suppression had zeroed as a whole, and has no seed                       *)
C25_WhollySuppressed ==
    /\ Called
    /\ Frame >= 2
    /\ \E b \in Range(before) :
          /\ pose(b, Frame - 1) # NoPose
          /\ ~HasEvidence(pose(b, Frame - 1))
          /\ SeedsOf(initial_annotations, b.id_) = {}

-----------------------------------------------------------------------------
(* C26: the loader yields the batches of its parent unchanged and in        *)
(* order, and over all passes it emits 'eval_reset' exactly once, right     *)
(* before the yield, for each batch whose monitored value differs from the  *)
(* value of the batch yielded before it (None before the first batch        *)
(* ever), and at no other time; the remembered value is the value of the    *)
(* last batch yielded, whatever the pass it was yielded in.                 *)
Value(batch) == batch.metas[1][key_to_monitor]

Mixed(batch) ==
    /\ Len(batch.metas) >= 2
    /\ \E i \in 2..Len(batch.metas) : batch.metas[i][key_to_monitor] # Value(batch)

YieldsBefore(j) == {i \in 1..(j - 1) : i \in DOMAIN events /\ events[i].type = "yield"}

ValueBefore(j) ==
    IF YieldsBefore(j) = {} THEN None ELSE Value(events[SetMax(YieldsBefore(j))].batch)

LastIter == SetMax({0} \cup {i \in DOMAIN events : events[i].type = "iter"})

(* the batches yielded by the generator created last *)
YieldedThisPass ==
    LET since == SelectSeq(SubSeq(events, LastIter + 1, Len(events)),
                           LAMBDA e : e.type = "yield")
    IN  [i \in DOMAIN since |-> since[i].batch]

C26_Reset ==
    /\ \A j \in DOMAIN events :
          /\ events[j].type = "yield" =>
                /\ (j > 1 /\ events[j - 1].type = "eval_reset")
                      <=> Value(events[j].batch) # ValueBefore(j)
                /\ j > 2 => ~(events[j - 1].type = "eval_reset"
                              /\ events[j - 2].type = "eval_reset")
          /\ events[j].type = "eval_reset" =>
                /\ j < Len(events)
                /\ events[j + 1].type = "yield"
    /\ previous_value = ValueBefore(Len(events) + 1)
    /\ Len(YieldedThisPass) <= Len(parent)
    /\ YieldedThisPass = SubSeq(parent, 1, Len(YieldedThisPass))
    /\ position > 0 => Len(YieldedThisPass) = position - 1

(* a second pass has yielded its first batch without a signal, the value    *)
(* being the one the first pass ended on, after the first pass had emitted  *)
(* a signal at its first batch and at a change of value                     *)
C26_Witness ==
    /\ passes = 2
    /\ LastIter > 0
    /\ LastIter + 1 \in DOMAIN events
    /\ events[LastIter + 1].type = "yield"
    /\ Cardinality({j \in 1..LastIter : events[j].type = "eval_reset"}) >= 2
    /\ Cardinality({j \in 1..LastIter : events[j].type = "yield"}) >= 3
    /\ previous_value = Value(events[LastIter + 1].batch)

-----------------------------------------------------------------------------
(* C27: a batch whose metas do not all carry the same monitored value is    *)
(* rejected by an assertion failure before any signal: the step that takes  *)
(* such a batch raises, yields nothing, emits no 'eval_reset' and leaves    *)
(* previous_value as it was; no yielded batch is mixed.                     *)
TakesBatch ==
    /\ position > 0
    /\ position <= Len(parent)
    /\ events' # events

C27_Rejection ==
    /\ [](\A j \in DOMAIN events :
            /\ events[j].type = "yield" => ~Mixed(events[j].batch)
            /\ (events[j].type = "AssertionError" /\ j > 1) =>
                  events[j - 1].type # "eval_reset")
    /\ [][(TakesBatch /\ Mixed(parent[position])) =>
            /\ events' = Append(events, Event("AssertionError", NoBatch))
            /\ previous_value' = previous_value
            /\ position' = 0]_vars
    /\ [][(TakesBatch /\ ~Mixed(parent[position])) =>
            events'[Len(events')] = Event("yield", parent[position])]_vars

(* after a batch was yielded, a mixed batch whose first value differs from  *)
(* the remembered one was rejected: the last event is the exception, the    *)
(* one before it the yield, and the remembered value is still the yielded   *)
(* batch's                                                                  *)
C27_Witness ==
    /\ Len(events) >= 2
    /\ events[Len(events)].type = "AssertionError"
    /\ events[Len(events) - 1].type = "yield"
    /\ position = 0
    /\ Len(YieldedThisPass) < Len(parent)
    /\ Mixed(parent[Len(YieldedThisPass) + 1])
    /\ Value(parent[Len(YieldedThisPass) + 1]) # previous_value
    /\ previous_value = Value(events[Len(events) - 1].batch)

====
